---- MODULE Spec2Model ----
(***************************************************************************)
(* Model of weather.py: the WeatherApp widget, its get_weather slot and    *)
(* the display_error / display_weather / get_weather_emoji helpers.        *)
(*                                                                         *)
(* Texts are sequences of chunks: a string literal of the source is one    *)
(* chunk, a formatted number is one chunk per character, and a weather     *)
(* description is one chunk per character (str.title works per character). *)
(* The empty text is << >>.  Temperatures are integers in hundredths of a  *)
(* kelvin / of a degree Celsius.  The pictograms of get_weather_emoji are  *)
(* written by the names the source's comments give them, and the unit      *)
(* marker (U+00B0 followed by C) is written "degC".                        *)
(***************************************************************************)
EXTENDS Integers, Sequences, FiniteSets

VARIABLES
    temperature_label,  \* text of self.temperature_label
    temperature_style,  \* style sheet set on self.temperature_label
    emoji_label,        \* text of self.emoji_label
    description_label,  \* text of self.description_label
    net_calls,          \* number of requests.get calls made so far
    triggers,           \* number of get_weather invocations so far
    last,               \* what the latest get_weather invocation saw:
                        \*   api_key and the outcome of the request
    weather_id,         \* argument of a direct get_weather_emoji call
    emoji               \* result of that call ("" before the call)

vars == <<temperature_label, temperature_style, emoji_label, description_label,
          net_calls, triggers, last, weather_id, emoji>>

(***************************************************************************)
(* Bounds of the model.                                                    *)
(***************************************************************************)
MaxTriggers == 3     \* button clicks explored
IdSpan == 1000       \* get_weather_emoji is explored on -IdSpan..IdSpan

(***************************************************************************)
(* Characters and decimal formatting.                                      *)
(***************************************************************************)
LowerLetters == <<"a","b","c","d","e","f","g","h","i","j","k","l","m",
                  "n","o","p","q","r","s","t","u","v","w","x","y","z">>
UpperLetters == <<"A","B","C","D","E","F","G","H","I","J","K","L","M",
                  "N","O","P","Q","R","S","T","U","V","W","X","Y","Z">>
DigitChars == <<"0","1","2","3","4","5","6","7","8","9">>

LowerSet == {LowerLetters[i] : i \in 1..26}
UpperSet == {UpperLetters[i] : i \in 1..26}
UpperOf == [c \in LowerSet |-> UpperLetters[CHOOSE i \in 1..26 : LowerLetters[i] = c]]
LowerOf == [c \in UpperSet |-> LowerLetters[CHOOSE i \in 1..26 : UpperLetters[i] = c]]

IsLower(c) == c \in LowerSet
IsUpper(c) == c \in UpperSet
ToUpper(c) == IF IsLower(c) THEN UpperOf[c] ELSE c
ToLower(c) == IF IsUpper(c) THEN LowerOf[c] ELSE c

\* str(n) / format(n, "d") for n >= 0: the decimal digits, most significant first
RECURSIVE DigitsOf(_)
DigitsOf(n) ==
    IF n < 10 THEN <<DigitChars[n + 1]>>
    ELSE DigitsOf(n \div 10) \o <<DigitChars[(n % 10) + 1]>>

\* format(x, ".1f") of a float x whose decimal value is h hundredths up to
\* the representation error of binary floating point.  When the hundredths
\* digit is 5 the float lies just above or just below the tie (or on it,
\* and then round-half-even decides), so the direction is not fixed by h:
\* tieUp is that direction.  A negative value that rounds to zero keeps
\* its sign ("-0.0").
FormatF1(h, tieUp) ==
    LET a == IF h < 0 THEN -h ELSE h
        r == a % 10
        t == IF r > 5 \/ (r = 5 /\ tieUp) THEN (a \div 10) + 1 ELSE a \div 10
    IN  (IF h < 0 THEN <<"-">> ELSE << >>)
        \o DigitsOf(t \div 10) \o <<".">> \o <<DigitChars[(t % 10) + 1]>>

\* str.title(): a letter that follows no letter (the first of a maximal run
\* of letters) is upper-cased, a letter that follows a letter is lower-cased,
\* every other character is kept.
IsCased(c) == IsLower(c) \/ IsUpper(c)

Title(s) ==
    [i \in 1..Len(s) |->
        IF ~IsCased(s[i]) THEN s[i]
        ELSE IF i > 1 /\ IsCased(s[i - 1]) THEN ToLower(s[i])
        ELSE ToUpper(s[i])]

(***************************************************************************)
(* requests.exceptions: each class with the classes it is an instance of.  *)
(* ConnectTimeout derives from both ConnectionError and Timeout.           *)
(* JSONDecodeError is what response.json() raises on a body that is not    *)
(* JSON (requests 2.27 and later); it is a RequestException.               *)
(***************************************************************************)
Bases(exc) ==
    CASE exc = "HTTPError"        -> {"HTTPError", "RequestException"}
      [] exc = "ConnectionError"  -> {"ConnectionError", "RequestException"}
      [] exc = "SSLError"         -> {"SSLError", "ConnectionError", "RequestException"}
      [] exc = "ConnectTimeout"   -> {"ConnectTimeout", "ConnectionError", "Timeout",
                                      "RequestException"}
      [] exc = "ReadTimeout"      -> {"ReadTimeout", "Timeout", "RequestException"}
      [] exc = "TooManyRedirects" -> {"TooManyRedirects", "RequestException"}
      [] exc = "InvalidURL"       -> {"InvalidURL", "RequestException"}
      [] exc = "JSONDecodeError"  -> {"JSONDecodeError", "InvalidJSONError",
                                      "RequestException"}

\* the except clauses of get_weather, in source order
ExceptClauses ==
    <<"HTTPError", "ConnectionError", "Timeout", "TooManyRedirects", "RequestException">>

\* the clause that handles exc: the first one exc is an instance of
Handler(exc) ==
    LET hits == {i \in 1..Len(ExceptClauses) : ExceptClauses[i] \in Bases(exc)}
    IN  ExceptClauses[CHOOSE i \in hits : \A j \in hits : i <= j]

\* raise_for_status that raises for the client errors only
RaisesForStatus_ClientOnly(status_code) == 400 <= status_code /\ status_code < 500

\* Response.raise_for_status() raises HTTPError for 400 <= status_code < 600
RaisesForStatus(status_code) == 400 <= status_code /\ status_code < 600

\* "if not api_key": None and the empty string are both falsy
Truthy(api_key) == api_key.set /\ api_key.v # ""

\* a comparison that takes the string "200" for the integer
CodIs200_Loose(cod) == cod.v = 200

\* data["cod"] == 200: a str never equals an int
CodIs200(cod) == cod.t = "int" /\ cod.v = 200

(***************************************************************************)
(* get_weather_emoji, after a variant that gives the gap 400..499 to       *)
(* drizzle.                                                                *)
(***************************************************************************)
get_weather_emoji_gapfilled(id) ==
    IF 200 <= id /\ id < 300 THEN "thunderstorm"
    ELSE IF 300 <= id /\ id < 500 THEN "drizzle"
    ELSE IF 500 <= id /\ id < 600 THEN "rain"
    ELSE IF 600 <= id /\ id < 700 THEN "snow"
    ELSE IF 700 <= id /\ id < 800 THEN "atmosphere"
    ELSE IF id = 800 THEN "clear sky"
    ELSE IF 801 <= id /\ id < 900 THEN "clouds"
    ELSE "unknown"

get_weather_emoji(id) ==
    IF 200 <= id /\ id < 300 THEN "thunderstorm"
    ELSE IF 300 <= id /\ id < 400 THEN "drizzle"
    ELSE IF 500 <= id /\ id < 600 THEN "rain"
    ELSE IF 600 <= id /\ id < 700 THEN "snow"
    ELSE IF 700 <= id /\ id < 800 THEN "atmosphere"
    ELSE IF id = 800 THEN "clear sky"
    ELSE IF 801 <= id /\ id < 900 THEN "clouds"
    ELSE "unknown"

(***************************************************************************)
(* display_error and display_weather                                       *)
(***************************************************************************)
KelvinOffset == 27315   \* 273.15 in hundredths
DegC == "degC"

\* display_error without the two clear() calls
display_error_keeps_regions(message) ==
    /\ temperature_style' = "font-size:20px;"
    /\ temperature_label' = message
    /\ UNCHANGED <<emoji_label, description_label>>

display_error(message) ==
    /\ temperature_style' = "font-size:20px;"
    /\ temperature_label' = message
    /\ emoji_label' = << >>
    /\ description_label' = << >>

\* display_weather reading the last element of the weather list
display_weather_last_element(data) ==
    LET temperature == data.main.temp - KelvinOffset
        w_id == data.weather[Len(data.weather)].id
        weather_description == data.weather[Len(data.weather)].description
    IN  /\ temperature_style' = "font-size:75px;"
        /\ \E tieUp \in BOOLEAN :
              temperature_label' = FormatF1(temperature, tieUp) \o <<DegC>>
        /\ emoji_label' = <<get_weather_emoji(w_id)>>
        /\ description_label' = Title(weather_description)

\* display_weather without the setText of the description label
display_weather_stale_description(data) ==
    LET temperature == data.main.temp - KelvinOffset
        w_id == data.weather[1].id
    IN  /\ temperature_style' = "font-size:75px;"
        /\ \E tieUp \in BOOLEAN :
              temperature_label' = FormatF1(temperature, tieUp) \o <<DegC>>
        /\ emoji_label' = <<get_weather_emoji(w_id)>>
        /\ UNCHANGED description_label

display_weather(data) ==
    LET temperature == data.main.temp - KelvinOffset
        w_id == data.weather[1].id
        weather_description == data.weather[1].description
    IN  /\ temperature_style' = "font-size:75px;"
        /\ \E tieUp \in BOOLEAN :
              temperature_label' = FormatF1(temperature, tieUp) \o <<DegC>>
        /\ emoji_label' = <<get_weather_emoji(w_id)>>
        /\ description_label' = Title(weather_description)

\* the match statement with the message of 502 pasted into the case 503
HttpMessage_Pasted(status_code) ==
    CASE status_code = 400 -> <<"Error: Bad request. Please check the city name.">>
      [] status_code = 401 -> <<"Error: Unauthorized. Please check your API key.">>
      [] status_code = 403 ->
            <<"Error: Forbidden. You don't have permission to access this resource.">>
      [] status_code = 404 -> <<"Error: City not found.">>
      [] status_code = 500 -> <<"Error: Internal server error. Please try again later.">>
      [] status_code = 502 -> <<"Error: Bad gateway. Please try again later.">>
      [] status_code = 503 -> <<"Error: Bad gateway. Please try again later.">>
      [] status_code = 504 -> <<"Error: Gateway timeout. Please try again later.">>
      [] OTHER -> <<"Error: An unexpected error occurred. Status code: ">>
                  \o DigitsOf(status_code)

\* the message of the "match response.status_code" statement
HttpMessage(status_code) ==
    CASE status_code = 400 -> <<"Error: Bad request. Please check the city name.">>
      [] status_code = 401 -> <<"Error: Unauthorized. Please check your API key.">>
      [] status_code = 403 ->
            <<"Error: Forbidden. You don't have permission to access this resource.">>
      [] status_code = 404 -> <<"Error: City not found.">>
      [] status_code = 500 -> <<"Error: Internal server error. Please try again later.">>
      [] status_code = 502 -> <<"Error: Bad gateway. Please try again later.">>
      [] status_code = 503 -> <<"Error: Service unavailable. Please try again later.">>
      [] status_code = 504 -> <<"Error: Gateway timeout. Please try again later.">>
      [] OTHER -> <<"Error: An unexpected error occurred. Status code: ">>
                  \o DigitsOf(status_code)

MsgNoKey == <<"Error: API key not found. Please set WEATHER_API_KEY in .env file.">>
MsgConnection ==
    <<"Error: Unable to connect to the weather service. Please check your internet connection.">>
MsgTimeout == <<"Error: The request timed out. Please try again later.">>
MsgRedirects == <<"Error: Too many redirects. Please check the URL.">>
MsgOther == <<"Error: Unable to retrieve weather data.">>

(***************************************************************************)
(* get_weather.  env is what the network answers to requests.get: an       *)
(* exception of requests.exceptions, or a response with a status code and  *)
(* a body.                                                                 *)
(***************************************************************************)
NoRequest == [kind |-> "none"]

\* the exception the try block raises for env, "" when it raises none:
\* requests.get raises, raise_for_status raises, or response.json() raises
Raised(env) ==
    IF env.kind = "exc" THEN env.exc
    ELSE IF RaisesForStatus(env.status_code) THEN "HTTPError"
    ELSE IF ~env.body.json THEN "JSONDecodeError"
    ELSE ""

TryRequest(env) ==
    LET exc == Raised(env) IN
    IF exc = ""
    THEN IF CodIs200(env.body.cod)
         THEN display_weather(env.body)
         ELSE UNCHANGED <<temperature_label, temperature_style, emoji_label,
                          description_label>>
    ELSE LET clause == Handler(exc) IN
         CASE clause = "HTTPError"        -> display_error(HttpMessage(env.status_code))
           [] clause = "ConnectionError"  -> display_error(MsgConnection)
           [] clause = "Timeout"          -> display_error(MsgTimeout)
           [] clause = "TooManyRedirects" -> display_error(MsgRedirects)
           [] clause = "RequestException" -> display_error(MsgOther)

\* get_weather making the request before it looks at the key
get_weather_request_first(api_key, env) ==
    /\ triggers < MaxTriggers
    /\ triggers' = triggers + 1
    /\ net_calls' = net_calls + 1
    /\ IF ~Truthy(api_key)
       THEN /\ display_error(MsgNoKey)
            /\ last' = [api_key |-> api_key, env |-> NoRequest]
       ELSE /\ last' = [api_key |-> api_key, env |-> env]
            /\ TryRequest(env)
    /\ UNCHANGED <<weather_id, emoji>>

\* get_weather repeating the request once when requests.get raised
get_weather_retry(api_key, env) ==
    /\ triggers < MaxTriggers
    /\ triggers' = triggers + 1
    /\ IF ~Truthy(api_key)
       THEN /\ display_error(MsgNoKey)
            /\ net_calls' = net_calls
            /\ last' = [api_key |-> api_key, env |-> NoRequest]
       ELSE /\ net_calls' = net_calls + (IF env.kind = "exc" THEN 2 ELSE 1)
            /\ last' = [api_key |-> api_key, env |-> env]
            /\ TryRequest(env)
    /\ UNCHANGED <<weather_id, emoji>>

get_weather(api_key, env) ==
    /\ triggers < MaxTriggers
    /\ triggers' = triggers + 1
    /\ IF ~Truthy(api_key)
       THEN /\ display_error(MsgNoKey)
            /\ net_calls' = net_calls
            /\ last' = [api_key |-> api_key, env |-> NoRequest]
       ELSE /\ net_calls' = net_calls + 1
            /\ last' = [api_key |-> api_key, env |-> env]
            /\ TryRequest(env)
    /\ UNCHANGED <<weather_id, emoji>>

(***************************************************************************)
(* The inputs explored.                                                    *)
(***************************************************************************)
\* os.getenv("WEATHER_API_KEY"): unset (None), set to "", set to a key
ApiKeys == {[set |-> FALSE, v |-> ""], [set |-> TRUE, v |-> ""],
            [set |-> TRUE, v |-> "k3y"]}

\* exceptions requests.get raises
GetExceptions == {"ConnectionError", "SSLError", "ConnectTimeout", "ReadTimeout",
                  "TooManyRedirects", "InvalidURL"}

ErrorStatuses == {400, 401, 403, 404, 418, 429, 500, 502, 503, 504, 599}
OtherStatuses == {101, 299, 304, 600}

DescClearSky == <<"c","l","e","a","r"," ","s","k","y">>
DescLightRain == <<"l","i","g","h","t"," ","r","a","i","n">>
DescFewClouds == <<"f","e","w"," ","c","l","o","u","d","s",":"," ","1","1","-","2","5","%">>
DescOdd == <<"i","t","'","s"," ","H","O","T">>
DescSnow == <<"S","n","o","w">>
DescFog == <<"f","o","g">>
DescStorm == <<"s","t","o","r","m">>

Weather(id, description) == [id |-> id, description |-> description]

\* the readings: main.temp in hundredths of a kelvin with weather[0]
Readings ==
    {[temp |-> 29515, first |-> Weather(800, DescClearSky)],
     [temp |-> 30000, first |-> Weather(501, DescLightRain)],
     [temp |-> 27312, first |-> Weather(450, DescOdd)],
     [temp |-> 0,     first |-> Weather(804, DescFewClouds)],
     [temp |-> 26315, first |-> Weather(600, DescSnow)],
     [temp |-> 27315, first |-> Weather(741, DescFog)]}
SecondWeather == Weather(211, DescStorm)

Cod200 == [t |-> "int", v |-> 200]
OtherCods == {[t |-> "str", v |-> 200], [t |-> "int", v |-> 404], [t |-> "str", v |-> 404]}

NotJson == [json |-> FALSE]
JsonBody(cod, temp, weather) ==
    [json |-> TRUE, cod |-> cod, main |-> [temp |-> temp], weather |-> weather]

SampleWeather == <<Weather(800, DescClearSky)>>
\* bodies with cod 200, bodies with another cod, and a few of each
Bodies200 ==
    {JsonBody(Cod200, r.temp, <<r.first>>) : r \in Readings}
    \cup {JsonBody(Cod200, r.temp, <<r.first, SecondWeather>>) : r \in Readings}
BodiesNot200 == {JsonBody(c, 29515, SampleWeather) : c \in OtherCods}
FewBodies == {NotJson, JsonBody(Cod200, 29515, SampleWeather)} \cup BodiesNot200

Response(status_code, body) ==
    [kind |-> "resp", status_code |-> status_code, body |-> body]

Envs ==
    {[kind |-> "exc", exc |-> e] : e \in GetExceptions}
    \cup {Response(200, b) : b \in Bodies200 \cup FewBodies}
    \cup {Response(c, b) : c \in ErrorStatuses \cup OtherStatuses, b \in FewBodies}

(***************************************************************************)
(* The application: the button's clicked signal runs get_weather.          *)
(***************************************************************************)
Init ==
    /\ temperature_label = << >>
    /\ temperature_style = ""
    /\ emoji_label = << >>
    /\ description_label = << >>
    /\ net_calls = 0
    /\ triggers = 0
    /\ last = [api_key |-> [set |-> FALSE, v |-> ""], env |-> NoRequest]
    /\ weather_id = 0
    /\ emoji = ""

\* without a key get_weather returns before it makes the request, so there is
\* no answer of the network to choose
Clicked ==
    \E api_key \in ApiKeys :
        IF Truthy(api_key)
        THEN \E env \in Envs : get_weather(api_key, env)
        ELSE get_weather(api_key, NoRequest)

Next == Clicked

Spec == Init /\ [][Next]_vars

(***************************************************************************)
(* get_weather_emoji called directly, on every id of -IdSpan..IdSpan.      *)
(***************************************************************************)
InitEmoji ==
    /\ temperature_label = << >>
    /\ temperature_style = ""
    /\ emoji_label = << >>
    /\ description_label = << >>
    /\ net_calls = 0
    /\ triggers = 0
    /\ last = [api_key |-> [set |-> FALSE, v |-> ""], env |-> NoRequest]
    /\ weather_id \in (-IdSpan)..IdSpan
    /\ emoji = ""

CallEmoji ==
    /\ emoji = ""
    /\ emoji' = get_weather_emoji(weather_id)
    /\ UNCHANGED <<temperature_label, temperature_style, emoji_label, description_label,
                   net_calls, triggers, last, weather_id>>

NextEmoji == CallEmoji

SpecEmoji == InitEmoji /\ [][NextEmoji]_vars

(***************************************************************************)
(* Vocabulary of the properties.                                           *)
(***************************************************************************)
Triggered == triggers > 0
StepsTrigger == triggers' # triggers

\* no credential: WEATHER_API_KEY is unset, or set to the empty string
NoCredential(l) == ~l.api_key.set \/ l.api_key.v = ""
GotResponse(l) == ~NoCredential(l) /\ l.env.kind = "resp"
GotException(l) == ~NoCredential(l) /\ l.env.kind = "exc"
Is2xx(code) == 200 <= code /\ code <= 299
IsErrorStatus(code) == 400 <= code /\ code <= 599

\* a response whose body is displayed: not an error status, JSON, cod 200
SuccessResponse(l) ==
    /\ GotResponse(l)
    /\ ~IsErrorStatus(l.env.status_code)
    /\ l.env.body.json
    /\ l.env.body.cod = Cod200

\* a response that is passed over in silence: not an error status, JSON,
\* cod other than the integer 200
SilentResponse(l) ==
    /\ GotResponse(l)
    /\ ~IsErrorStatus(l.env.status_code)
    /\ l.env.body.json
    /\ l.env.body.cod # Cod200

\* the first chunk of every message the program shows as an error
ErrorLiterals ==
    {"Error: API key not found. Please set WEATHER_API_KEY in .env file.",
     "Error: Bad request. Please check the city name.",
     "Error: Unauthorized. Please check your API key.",
     "Error: Forbidden. You don't have permission to access this resource.",
     "Error: City not found.",
     "Error: Internal server error. Please try again later.",
     "Error: Bad gateway. Please try again later.",
     "Error: Service unavailable. Please try again later.",
     "Error: Gateway timeout. Please try again later.",
     "Error: An unexpected error occurred. Status code: ",
     "Error: Unable to connect to the weather service. Please check your internet connection.",
     "Error: The request timed out. Please try again later.",
     "Error: Too many redirects. Please check the URL.",
     "Error: Unable to retrieve weather data."}

IsErrorMessage(t) == Len(t) >= 1 /\ t[1] \in ErrorLiterals

Idle ==
    temperature_label = << >> /\ emoji_label = << >> /\ description_label = << >>
ShowingError ==
    IsErrorMessage(temperature_label) /\ emoji_label = << >> /\ description_label = << >>
\* all three regions are the rendering of the one body
ShowingResultOf(body) ==
    /\ temperature_label \in
          {FormatF1(body.main.temp - KelvinOffset, up) \o <<DegC>> : up \in BOOLEAN}
    /\ emoji_label = <<get_weather_emoji(body.weather[1].id)>>
    /\ description_label = Title(body.weather[1].description)

\* the value of a sequence of decimal digits, read up to position n
DigitVal(c) == (CHOOSE i \in 1..10 : DigitChars[i] = c) - 1
IsDigit(c) == \E i \in 1..10 : DigitChars[i] = c
RECURSIVE ParseUpTo(_, _)
ParseUpTo(s, n) ==
    IF n = 0 THEN 0 ELSE 10 * ParseUpTo(s, n - 1) + DigitVal(s[n])
ParseDigits(s) == ParseUpTo(s, Len(s))
AllDigits(s) == Len(s) >= 1 /\ \A i \in 1..Len(s) : IsDigit(s[i])

(***************************************************************************)
(* C1  A trigger made with no credential makes no network call and ends    *)
(* with exactly the "API key not found" message in the temperature region  *)
(* and the icon and description regions empty, whatever was shown before.  *)
(***************************************************************************)
C1_NoCredential ==
    [][(StepsTrigger /\ NoCredential(last')) =>
          /\ net_calls' = net_calls
          /\ temperature_label' =
                <<"Error: API key not found. Please set WEATHER_API_KEY in .env file.">>
          /\ emoji_label' = << >>
          /\ description_label' = << >>]_vars

\* a trigger without credential that followed a trigger which made a request
C1_Witness ==
    /\ triggers >= 2
    /\ net_calls >= 1
    /\ NoCredential(last)
    /\ last.api_key.set
    /\ temperature_label =
          <<"Error: API key not found. Please set WEATHER_API_KEY in .env file.">>

(***************************************************************************)
(* C2  get_weather_emoji gives every integer the icon of the one bucket of *)
(* the reference table that holds it, and "unknown" when no bucket does    *)
(* (the gap 400..499, everything below 200, everything from 900 on); no    *)
(* integer is in two buckets.                                              *)
(***************************************************************************)
Buckets ==
    {[lo |-> 200, hi |-> 300, icon |-> "thunderstorm"],
     [lo |-> 300, hi |-> 400, icon |-> "drizzle"],
     [lo |-> 500, hi |-> 600, icon |-> "rain"],
     [lo |-> 600, hi |-> 700, icon |-> "snow"],
     [lo |-> 700, hi |-> 800, icon |-> "atmosphere"],
     [lo |-> 800, hi |-> 801, icon |-> "clear sky"],
     [lo |-> 801, hi |-> 900, icon |-> "clouds"]}
BucketsOf(id) == {b \in Buckets : b.lo <= id /\ id < b.hi}

C2_EmojiTable ==
    emoji # "" =>
        /\ Cardinality(BucketsOf(weather_id)) <= 1
        /\ \A b \in BucketsOf(weather_id) : emoji = b.icon
        /\ BucketsOf(weather_id) = {} => emoji = "unknown"

\* the call was made on an id of the gap, on a negative id and on 900
C2_Witness ==
    /\ emoji = "unknown"
    /\ weather_id \in {450, -1, 900}

(***************************************************************************)
(* C3  As claimed: a response with any status code outside 200..299 ends   *)
(* the trigger in ShowingError and its body is not displayed.              *)
(***************************************************************************)
C3_AnyNon2xxIsError ==
    (Triggered /\ GotResponse(last) /\ ~Is2xx(last.env.status_code)) => ShowingError

(***************************************************************************)
(* C3, amended  A response with a status code in 400..599 ends the trigger *)
(* in ShowingError: an HTTP error message in the temperature region, icon  *)
(* and description empty, and the body is not displayed as a reading.      *)
(***************************************************************************)
HttpErrorLiterals ==
    {"Error: Bad request. Please check the city name.",
     "Error: Unauthorized. Please check your API key.",
     "Error: Forbidden. You don't have permission to access this resource.",
     "Error: City not found.",
     "Error: Internal server error. Please try again later.",
     "Error: Bad gateway. Please try again later.",
     "Error: Service unavailable. Please try again later.",
     "Error: Gateway timeout. Please try again later.",
     "Error: An unexpected error occurred. Status code: "}

C3_ErrorStatusIsError ==
    (Triggered /\ GotResponse(last) /\ IsErrorStatus(last.env.status_code)) =>
        /\ ShowingError
        /\ temperature_label[1] \in HttpErrorLiterals
        /\ temperature_label[Len(temperature_label)] # DegC

\* a 5xx response that carried a displayable body (cod 200)
C3_Witness ==
    /\ Triggered
    /\ GotResponse(last)
    /\ last.env.status_code = 503
    /\ last.env.body.json
    /\ last.env.body.cod = Cod200
    /\ ShowingError

(***************************************************************************)
(* C4  When get_weather handles an HTTP error status c, the message shown  *)
(* is the one the table gives c; for a code the table does not hold, the   *)
(* generic message followed by the decimal digits of c.  Distinct codes of *)
(* the table have distinct messages.                                       *)
(***************************************************************************)
StatusTable ==
    {<<400, "Error: Bad request. Please check the city name.">>,
     <<401, "Error: Unauthorized. Please check your API key.">>,
     <<403, "Error: Forbidden. You don't have permission to access this resource.">>,
     <<404, "Error: City not found.">>,
     <<500, "Error: Internal server error. Please try again later.">>,
     <<502, "Error: Bad gateway. Please try again later.">>,
     <<503, "Error: Service unavailable. Please try again later.">>,
     <<504, "Error: Gateway timeout. Please try again later.">>}

C4_StatusMessages ==
    /\ \A p \in StatusTable, q \in StatusTable : p[1] # q[1] => p[2] # q[2]
    /\ (Triggered /\ GotResponse(last) /\ IsErrorStatus(last.env.status_code)) =>
          LET c == last.env.status_code
              rows == {p \in StatusTable : p[1] = c}
          IN  /\ \A p \in rows : temperature_label = <<p[2]>>
              /\ rows = {} =>
                    /\ Len(temperature_label) >= 2
                    /\ temperature_label[1] =
                          "Error: An unexpected error occurred. Status code: "
                    /\ AllDigits(Tail(temperature_label))
                    /\ ParseDigits(Tail(temperature_label)) = c

\* the code 418, which the table does not hold, was handled
C4_Witness ==
    /\ Triggered
    /\ GotResponse(last)
    /\ last.env.status_code = 418
    /\ Tail(temperature_label) = <<"4", "1", "8">>

(***************************************************************************)
(* C5  A request that fails at transport level is shown under the category *)
(* of its kind: no connection -> "Unable to connect", every timeout        *)
(* (connect timeout and read timeout) -> "timed out", a redirect loop ->   *)
(* "Too many redirects", any other request exception -> "Unable to         *)
(* retrieve"; icon and description are cleared.                            *)
(***************************************************************************)
TransportMessage(exc) ==
    CASE exc \in {"ConnectionError", "SSLError"} ->
            "Error: Unable to connect to the weather service. Please check your internet connection."
      [] exc \in {"ConnectTimeout", "ReadTimeout"} ->
            "Error: The request timed out. Please try again later."
      [] exc = "TooManyRedirects" -> "Error: Too many redirects. Please check the URL."
      [] OTHER -> "Error: Unable to retrieve weather data."

C5_TransportCategories ==
    (Triggered /\ GotException(last)) =>
        /\ temperature_label = <<TransportMessage(last.env.exc)>>
        /\ emoji_label = << >>
        /\ description_label = << >>

(***************************************************************************)
(* C6  As claimed: after every trigger the surface is in ShowingResult or  *)
(* ShowingError, showing the outcome of that trigger alone; it is never    *)
(* still Idle.                                                             *)
(***************************************************************************)
C6_EveryTriggerOverwrites ==
    Triggered =>
        \/ ShowingError
        \/ SuccessResponse(last) /\ ShowingResultOf(last.env.body)

(***************************************************************************)
(* C6, amended  Every trigger but one whose response is passed over in     *)
(* silence (no error status, JSON body, cod other than 200) writes all     *)
(* three regions from its own outcome alone: the reading of its response,  *)
(* or the error message of its failure with icon and description empty.   *)
(***************************************************************************)
\* the message of the failure of the trigger l, from l alone
FailureMessage(l) ==
    IF NoCredential(l) THEN MsgNoKey
    ELSE IF l.env.kind = "resp" /\ IsErrorStatus(l.env.status_code)
         THEN HttpMessage(l.env.status_code)
    ELSE IF l.env.kind = "resp" THEN MsgOther
    ELSE CASE Handler(l.env.exc) = "ConnectionError"  -> MsgConnection
           [] Handler(l.env.exc) = "Timeout"          -> MsgTimeout
           [] Handler(l.env.exc) = "TooManyRedirects" -> MsgRedirects
           [] OTHER -> MsgOther

C6_TriggerOverwrites ==
    [][(StepsTrigger /\ ~SilentResponse(last')) =>
          IF SuccessResponse(last')
          THEN /\ temperature_label' \in
                     {FormatF1(last'.env.body.main.temp - KelvinOffset, up) \o <<DegC>> :
                         up \in BOOLEAN}
               /\ emoji_label' = <<get_weather_emoji(last'.env.body.weather[1].id)>>
               /\ description_label' = Title(last'.env.body.weather[1].description)
          ELSE /\ temperature_label' = FailureMessage(last')
               /\ emoji_label' = << >>
               /\ description_label' = << >>]_vars

\* a third trigger that failed after a reading had been on screen
C6_Witness ==
    /\ triggers = 3
    /\ net_calls = 3
    /\ GotException(last)
    /\ ShowingError

(***************************************************************************)
(* C7  A response that is displayed (credential, 2xx, cod 200) ends the    *)
(* trigger with: temperature = main.temp - 273.15 to one decimal place     *)
(* followed by the unit marker, icon = get_weather_emoji(weather[0].id),   *)
(* description = weather[0].description with the first letter of each word *)
(* capitalised.  295.15, 800, "clear sky" give "22.0", clear sky,          *)
(* "Clear Sky".  Only weather[0] is used.                                  *)
(***************************************************************************)
\* t is h hundredths written to one decimal place, then the unit marker
OneDecimalOf(t, h) ==
    LET n == Len(t)
        neg == t[1] = "-"
        int == SubSeq(t, IF neg THEN 2 ELSE 1, n - 3)
        tenths == 10 * ParseDigits(int) + DigitVal(t[n - 1])
        a == IF h < 0 THEN -h ELSE h
        d == 10 * tenths - a
    IN  /\ n >= 4
        /\ t[n] = DegC
        /\ IsDigit(t[n - 1])
        /\ t[n - 2] = "."
        /\ AllDigits(int)
        /\ DigitsOf(ParseDigits(int)) = int
        /\ neg <=> h < 0
        /\ -5 <= d /\ d <= 5

\* out is the text in with the first letter of each word in upper case
WordsCapitalised(out, in) ==
    /\ Len(out) = Len(in)
    /\ \A i \in 1..Len(in) :
          /\ ToLower(out[i]) = ToLower(in[i])
          /\ (IsCased(in[i]) /\ (i = 1 \/ in[i - 1] = " ")) => IsUpper(out[i])

C7_DisplayedReading ==
    (Triggered /\ GotResponse(last) /\ Is2xx(last.env.status_code)
       /\ last.env.body.json /\ last.env.body.cod = Cod200) =>
        LET data == last.env.body IN
        /\ OneDecimalOf(temperature_label, data.main.temp - 27315)
        /\ emoji_label = <<get_weather_emoji(data.weather[1].id)>>
        /\ WordsCapitalised(description_label, data.weather[1].description)
        /\ (data.main.temp = 29515 /\ data.weather[1] = Weather(800, DescClearSky)) =>
              /\ temperature_label = <<"2", "2", ".", "0", DegC>>
              /\ emoji_label = <<"clear sky">>
              /\ description_label = <<"C","l","e","a","r"," ","S","k","y">>

\* the example reading, from a weather list of two elements
C7_Witness ==
    /\ Triggered
    /\ GotResponse(last)
    /\ last.env.status_code = 200
    /\ last.env.body.json
    /\ last.env.body.cod = Cod200
    /\ last.env.body.main.temp = 29515
    /\ Len(last.env.body.weather) = 2
    /\ temperature_label = <<"2", "2", ".", "0", DegC>>
    /\ description_label = <<"C","l","e","a","r"," ","S","k","y">>

(***************************************************************************)
(* C8  Every trigger made with a credential issues exactly one request,    *)
(* whatever its outcome, and a trigger without one issues none: the        *)
(* number of requests is the number of triggers made with a credential.    *)
(***************************************************************************)
C8_OneRequestPerTrigger ==
    [][StepsTrigger =>
          /\ triggers' = triggers + 1
          /\ net_calls' = net_calls + (IF NoCredential(last') THEN 0 ELSE 1)]_vars

\* three triggers with a credential, the last one failed by a timeout
C8_Witness ==
    /\ triggers = 3
    /\ net_calls = 3
    /\ GotException(last)
    /\ last.env.exc = "ReadTimeout"

(***************************************************************************)
(* C9  A trigger with a credential whose response is 2xx with a JSON body  *)
(* whose cod is not the integer 200 leaves the temperature, icon and       *)
(* description regions as they were: no reading and no error is shown.     *)
(***************************************************************************)
C9_SilentNoOp ==
    [][(StepsTrigger /\ GotResponse(last') /\ Is2xx(last'.env.status_code)
          /\ last'.env.body.json /\ last'.env.body.cod # Cod200) =>
          UNCHANGED <<temperature_label, temperature_style, emoji_label,
                      description_label>>]_vars

\* a reading stayed on screen through a trigger answered 200 with cod "200"
C9_Witness ==
    /\ triggers >= 2
    /\ GotResponse(last)
    /\ last.env.status_code = 200
    /\ last.env.body.json
    /\ last.env.body.cod = [t |-> "str", v |-> 200]
    /\ emoji_label # << >>

(***************************************************************************)
(* C10  Between triggers the three regions are consistent: all empty, or   *)
(* an error message with icon and description empty, or the rendering of   *)
(* one single response in all three.                                       *)
(***************************************************************************)
C10_RegionsConsistent ==
    \/ Idle
    \/ ShowingError
    \/ \E body \in Bodies200 : ShowingResultOf(body)

\* the reading of an earlier response is on screen, whole, after a trigger
\* that was passed over in silence and whose body held another temperature
C10_Witness ==
    /\ triggers = 3
    /\ SilentResponse(last)
    /\ \E body \in Bodies200 :
          /\ ShowingResultOf(body)
          /\ body.main.temp # last.env.body.main.temp
          /\ Len(body.weather) = 2

====
